---- MODULE Spec2Model ----
(***************************************************************************)
(* Model of axum-metrics (src/axum-metrics/src/lib.rs): a tower Layer      *)
(* whose Service wraps the future of an inner service in an ObservedFuture *)
(* that starts a timer on its first poll, remembers the status code of an  *)
(* Ok response and prints one record when it is dropped.                   *)
(***************************************************************************)
EXTENDS Integers, Sequences, FiniteSets, TLC

\* ------------------------------------------------------------------ bounds
MaxOps == 2      \* ObservedFutures created by MetricService::call
MaxPolls == 2    \* polls of ObservedFutures, all futures together
MaxClock == 1    \* ticks of the monotonic clock read by Instant::now()

\* -------------------------------------------------------------- data types
\* Option<T>: None is the empty sequence, Some(x) the one-element sequence.
None == << >>
Some(x) == << x >>
IsSome(o) == Len(o) = 1
IsNone(o) == Len(o) = 0
Unwrap(o) == o[1]

\* std::task::Poll and Result.
Pending == [poll |-> "Pending"]
Ready(r) == [poll |-> "Ready", result |-> r]
Ok(v) == [ok |-> TRUE, val |-> v]
Err(e) == [ok |-> FALSE, val |-> e]
IsReady(p) == p.poll = "Ready"

\* The requests handed to call: a method and a URI (path and query string).
Requests ==
    { [method |-> "GET", uri |-> [path |-> "/", query |-> ""]],
      [method |-> "POST", uri |-> [path |-> "/x", query |-> "debug=1"]] }

\* The responses and errors the inner future may resolve with.
Responses == { [status |-> s, body |-> "Hello, World!"] : s \in {200, 404} }
Errors == { [error |-> "timeout"] }

\* What one poll of the inner future may report.
InnerOutcomes ==
    {Pending} \cup { Ready(Ok(r)) : r \in Responses }
              \cup { Ready(Err(e)) : e \in Errors }

\* What poll_ready of the inner service may report.
ReadyOutcomes ==
    {Pending, Ready(Ok([unit |-> TRUE]))} \cup { Ready(Err(e)) : e \in Errors }

VARIABLES
    layer,       \* the MetricLayer
    service,     \* the MetricService the layer produced
    inner,       \* the wrapped service: the requests its call received
    futures,     \* the ObservedFutures, in order of creation
    built,       \* per future: the ObservedFuture as call returned it
    stdout,      \* the records printed so far
    now,         \* the monotonic clock
    history,     \* per future: what the inner future reported on each poll
    returned,    \* per future: what ObservedFuture::poll returned on each poll
    firstPoll,   \* per future not yet dropped: the clock at its first poll
    readyProbe   \* the last poll_ready: the inner result and the returned one

vars == << layer, service, inner, futures, built, stdout, now, history,
           returned, firstPoll, readyProbe >>

\* ------------------------------------------------------------- conversions
\* Mutant of RequestMetadataFrom: the method and the path change places.
MutRequestMetadataSwapped(request) ==
    [method |-> request.uri.path, path |-> request.method]

\* impl From<&Request> for RequestMetadata: method().to_string() and
\* uri().path().to_string(); the query string is not part of the path.
RequestMetadataFrom(request) ==
    [method |-> request.method, path |-> request.uri.path]

\* impl From<&Response> for ResponseMetadata: status().as_u16() as usize.
ResponseMetadataFrom(response) ==
    [code |-> response.status % (2 ^ 16)]

\* ------------------------------------------------------------ MetricLayer
\* Mutant of MetricLayerLayer: the service times incomplete requests whatever
\* the layer says.
MutLayerIgnoresFlag(l) ==
    [time_incomplete |-> TRUE]

\* Layer::layer: the service takes the layer's flag.
MetricLayerLayer(l) ==
    [time_incomplete |-> l.time_failures]

\* ----------------------------------------------------------- MetricService
\* Mutant of MetricServicePollReady: always ready, whatever the inner
\* service answers.
MutPollReadyAlwaysReady(svc, innerReady) ==
    [service |-> svc, ret |-> Ready(Ok([unit |-> TRUE]))]

\* Service::poll_ready: the inner service's answer, and the service itself.
MetricServicePollReady(svc, innerReady) ==
    [service |-> svc, ret |-> innerReady]

\* Mutant of MetricServiceCall: the timer starts at construction.
MutCallStartsTimer(svc, request) ==
    [response_future |-> "Pending",
     time_failures |-> svc.time_incomplete,
     started_at |-> Some(0),
     request_metadata |-> RequestMetadataFrom(request),
     response_metadata |-> None,
     alive |-> TRUE]

\* Service::call: the ObservedFuture built around the inner service's future.
MetricServiceCall(svc, request) ==
    [response_future |-> "Pending",
     time_failures |-> svc.time_incomplete,
     started_at |-> None,
     request_metadata |-> RequestMetadataFrom(request),
     response_metadata |-> None,
     alive |-> TRUE]

\* ---------------------------------------------------------- ObservedFuture
\* Mutant of ObservedFuturePoll: the response metadata is never stored.
MutPollForgetsResponse(fut, out, t) ==
    LET started == IF IsNone(fut.started_at) THEN Some(t) ELSE fut.started_at
    IN  IF IsReady(out)
        THEN [fut |-> [fut EXCEPT !.started_at = started,
                                  !.response_future = "Done"],
              ret |-> Ready(out.result),
              printed |-> << >>]
        ELSE [fut |-> [fut EXCEPT !.started_at = started],
              ret |-> Pending,
              printed |-> << >>]

\* Mutant of ObservedFuturePoll: the poll that resolves prints the record too.
MutPollPrintsOnReady(fut, out, t) ==
    LET started == IF IsNone(fut.started_at) THEN Some(t) ELSE fut.started_at
    IN  IF IsReady(out)
        THEN [fut |-> [fut EXCEPT
                        !.started_at = started,
                        !.response_future = "Done",
                        !.response_metadata =
                            IF out.result.ok
                            THEN Some(ResponseMetadataFrom(out.result.val))
                            ELSE fut.response_metadata],
              ret |-> Ready(out.result),
              printed |-> << [duration |-> t - Unwrap(started),
                              line |-> << fut.request_metadata.method,
                                          fut.request_metadata.path >>] >>]
        ELSE [fut |-> [fut EXCEPT !.started_at = started],
              ret |-> Pending,
              printed |-> << >>]

\* Mutant of ObservedFuturePoll: the error is replaced by a boxed one.
MutPollBoxesErr(fut, out, t) ==
    LET started == IF IsNone(fut.started_at) THEN Some(t) ELSE fut.started_at
    IN  IF IsReady(out)
        THEN [fut |-> [fut EXCEPT
                        !.started_at = started,
                        !.response_future = "Done",
                        !.response_metadata =
                            IF out.result.ok
                            THEN Some(ResponseMetadataFrom(out.result.val))
                            ELSE fut.response_metadata],
              ret |-> IF out.result.ok
                      THEN Ready(out.result)
                      ELSE Ready(Err([error |-> "boxed"])),
              printed |-> << >>]
        ELSE [fut |-> [fut EXCEPT !.started_at = started],
              ret |-> Pending,
              printed |-> << >>]

\* Mutant of ObservedFuturePoll: the timer starts on the poll that resolves.
MutPollTimerOnReady(fut, out, t) ==
    LET started == IF IsNone(fut.started_at) THEN Some(t) ELSE fut.started_at
    IN  IF IsReady(out)
        THEN [fut |-> [fut EXCEPT
                        !.started_at = started,
                        !.response_future = "Done",
                        !.response_metadata =
                            IF out.result.ok
                            THEN Some(ResponseMetadataFrom(out.result.val))
                            ELSE fut.response_metadata],
              ret |-> Ready(out.result),
              printed |-> << >>]
        ELSE [fut |-> fut,
              ret |-> Pending,
              printed |-> << >>]

\* Mutant of ObservedFuturePoll: every poll restarts the timer.
MutPollRestartsTimer(fut, out, t) ==
    IF IsReady(out)
    THEN [fut |-> [fut EXCEPT
                    !.started_at = Some(t),
                    !.response_future = "Done",
                    !.response_metadata =
                        IF out.result.ok
                        THEN Some(ResponseMetadataFrom(out.result.val))
                        ELSE fut.response_metadata],
          ret |-> Ready(out.result),
          printed |-> << >>]
    ELSE [fut |-> [fut EXCEPT !.started_at = Some(t)],
          ret |-> Pending,
          printed |-> << >>]

\* Mutant of ObservedFuturePoll: metadata is stored for every resolution, an
\* error counting as code 0.
MutPollStoresOnErr(fut, out, t) ==
    LET started == IF IsNone(fut.started_at) THEN Some(t) ELSE fut.started_at
    IN  IF IsReady(out)
        THEN [fut |-> [fut EXCEPT
                        !.started_at = started,
                        !.response_future = "Done",
                        !.response_metadata =
                            IF out.result.ok
                            THEN Some(ResponseMetadataFrom(out.result.val))
                            ELSE Some([code |-> 0])],
              ret |-> Ready(out.result),
              printed |-> << >>]
        ELSE [fut |-> [fut EXCEPT !.started_at = started],
              ret |-> Pending,
              printed |-> << >>]

\* Mutant of ObservedFuturePoll: the poll that starts the timer prints a
\* record of the request.
MutPollPrintsOnStart(fut, out, t) ==
    LET started == IF IsNone(fut.started_at) THEN Some(t) ELSE fut.started_at
        line == IF IsNone(fut.started_at)
                THEN << [duration |-> 0,
                         line |-> << fut.request_metadata.method,
                                     fut.request_metadata.path >>] >>
                ELSE << >>
    IN  IF IsReady(out)
        THEN [fut |-> [fut EXCEPT
                        !.started_at = started,
                        !.response_future = "Done",
                        !.response_metadata =
                            IF out.result.ok
                            THEN Some(ResponseMetadataFrom(out.result.val))
                            ELSE fut.response_metadata],
              ret |-> Ready(out.result),
              printed |-> line]
        ELSE [fut |-> [fut EXCEPT !.started_at = started],
              ret |-> Pending,
              printed |-> line]

\* Mutant of ObservedFuturePoll: a Pending poll clears the timer, so that
\* only the last stretch is timed.
MutPollPendingClearsTimer(fut, out, t) ==
    LET started == IF IsNone(fut.started_at) THEN Some(t) ELSE fut.started_at
    IN  IF IsReady(out)
        THEN [fut |-> [fut EXCEPT
                        !.started_at = started,
                        !.response_future = "Done",
                        !.response_metadata =
                            IF out.result.ok
                            THEN Some(ResponseMetadataFrom(out.result.val))
                            ELSE fut.response_metadata],
              ret |-> Ready(out.result),
              printed |-> << >>]
        ELSE [fut |-> [fut EXCEPT !.started_at = None],
              ret |-> Pending,
              printed |-> << >>]

\* Mutant of ObservedFuturePoll: the poll on which the inner future resolves
\* still answers Pending.
MutPollDelaysReady(fut, out, t) ==
    LET started == IF IsNone(fut.started_at) THEN Some(t) ELSE fut.started_at
    IN  IF IsReady(out)
        THEN [fut |-> [fut EXCEPT
                        !.started_at = started,
                        !.response_future = "Done",
                        !.response_metadata =
                            IF out.result.ok
                            THEN Some(ResponseMetadataFrom(out.result.val))
                            ELSE fut.response_metadata],
              ret |-> Pending,
              printed |-> << >>]
        ELSE [fut |-> [fut EXCEPT !.started_at = started],
              ret |-> Pending,
              printed |-> << >>]

\* Mutant of ObservedFuturePoll: the timer starts only once the inner future
\* has answered Pending.
MutPollTimerOnPendingOnly(fut, out, t) ==
    LET started == IF IsNone(fut.started_at) THEN Some(t) ELSE fut.started_at
    IN  IF IsReady(out)
        THEN [fut |-> [fut EXCEPT
                        !.response_future = "Done",
                        !.response_metadata =
                            IF out.result.ok
                            THEN Some(ResponseMetadataFrom(out.result.val))
                            ELSE fut.response_metadata],
              ret |-> Ready(out.result),
              printed |-> << >>]
        ELSE [fut |-> [fut EXCEPT !.started_at = started],
              ret |-> Pending,
              printed |-> << >>]

\* Future::poll, given what the inner future reports on this poll and the
\* clock: the future afterwards, the value returned, the records printed.
ObservedFuturePoll(fut, out, t) ==
    LET started == IF IsNone(fut.started_at) THEN Some(t) ELSE fut.started_at
    IN  IF IsReady(out)
        THEN [fut |-> [fut EXCEPT
                        !.started_at = started,
                        !.response_future = "Done",
                        !.response_metadata =
                            IF out.result.ok
                            THEN Some(ResponseMetadataFrom(out.result.val))
                            ELSE fut.response_metadata],
              ret |-> Ready(out.result),
              printed |-> << >>]
        ELSE [fut |-> [fut EXCEPT !.started_at = started],
              ret |-> Pending,
              printed |-> << >>]

\* Mutant of ObservedFutureDrop: nothing is printed without response metadata.
MutDropSkipsIncomplete(fut, t) ==
    IF IsSome(fut.started_at) /\ IsSome(fut.response_metadata)
    THEN << [duration |-> t - Unwrap(fut.started_at),
             line |-> << fut.request_metadata.method,
                         fut.request_metadata.path,
                         Unwrap(fut.response_metadata).code >>] >>
    ELSE << >>

\* Mutant of ObservedFutureDrop: nothing is printed for a future that is
\* dropped before its inner future resolved.
MutDropOnlyResolved(fut, t) ==
    IF IsSome(fut.started_at) /\ fut.response_future = "Done"
    THEN << [duration |-> t - Unwrap(fut.started_at),
             line |-> IF IsSome(fut.response_metadata)
                      THEN << fut.request_metadata.method,
                              fut.request_metadata.path,
                              Unwrap(fut.response_metadata).code >>
                      ELSE << fut.request_metadata.method,
                              fut.request_metadata.path >>] >>
    ELSE << >>

\* Mutant of ObservedFutureDrop: the duration is the clock itself, not the
\* time since the start instant.
MutDropDurationSinceEpoch(fut, t) ==
    IF IsSome(fut.started_at)
    THEN << [duration |-> t,
             line |-> IF IsSome(fut.response_metadata)
                      THEN << fut.request_metadata.method,
                              fut.request_metadata.path,
                              Unwrap(fut.response_metadata).code >>
                      ELSE << fut.request_metadata.method,
                              fut.request_metadata.path >>] >>
    ELSE << >>

\* PinnedDrop::drop: the records printed when the future is dropped at t.
\* A record is the duration line and the line of the metadata.
ObservedFutureDrop(fut, t) ==
    IF IsSome(fut.started_at)
    THEN << [duration |-> t - Unwrap(fut.started_at),
             line |-> IF IsSome(fut.response_metadata)
                      THEN << fut.request_metadata.method,
                              fut.request_metadata.path,
                              Unwrap(fut.response_metadata).code >>
                      ELSE << fut.request_metadata.method,
                              fut.request_metadata.path >>] >>
    ELSE << >>

\* What is left of a future once drop has run and its fields are released.
Released == [alive |-> FALSE]

\* The records tagged with the future that printed them.
Tagged(i, recs) ==
    [k \in 1..Len(recs) |-> [op |-> i, duration |-> recs[k].duration,
                             line |-> recs[k].line]]

\* ------------------------------------------------------------------ actions
Init ==
    /\ layer \in [time_failures : BOOLEAN]
    /\ service = MetricLayerLayer(layer)
    /\ inner = [calls |-> << >>]
    /\ futures = << >>
    /\ built = << >>
    /\ stdout = << >>
    /\ now = 0
    /\ history = << >>
    /\ returned = << >>
    /\ firstPoll = << >>
    /\ readyProbe = None

\* Time passes.
Tick ==
    /\ now < MaxClock
    /\ now' = now + 1
    /\ UNCHANGED << layer, service, inner, futures, built, stdout, history,
                    returned, firstPoll, readyProbe >>

\* The polls made so far, all futures together.
RECURSIVE TotalPolls(_)
TotalPolls(h) ==
    IF h = << >> THEN 0 ELSE Len(Head(h)) + TotalPolls(Tail(h))

\* The caller probes readiness (tower: before each call, until Ready(Ok)).
PollReady ==
    /\ Len(futures) < MaxOps
    /\ \E r \in ReadyOutcomes :
        LET step == MetricServicePollReady(service, r)
        IN  /\ service' = step.service
            /\ readyProbe' = Some([inner |-> r, ret |-> step.ret])
    /\ UNCHANGED << layer, inner, futures, built, stdout, now, history,
                    returned, firstPoll >>

\* The caller hands a request to the service (tower: after poll_ready
\* returned Ready(Ok); the call uses up that readiness).
Call ==
    /\ Len(futures) < MaxOps
    /\ IsSome(readyProbe)
    /\ Unwrap(readyProbe).ret = Ready(Ok([unit |-> TRUE]))
    /\ readyProbe' = None
    /\ \E request \in Requests :
        /\ futures' = Append(futures, MetricServiceCall(service, request))
        /\ built' = Append(built, MetricServiceCall(service, request))
        /\ inner' = [inner EXCEPT !.calls = Append(@, request)]
        /\ history' = Append(history, << >>)
        /\ returned' = Append(returned, << >>)
        /\ firstPoll' = Append(firstPoll, None)
    /\ UNCHANGED << layer, service, stdout, now >>

\* The owner of future i polls it; a future is not polled after it resolved.
Poll(i) ==
    /\ i \in 1..Len(futures)
    /\ futures[i].alive
    /\ futures[i].response_future = "Pending"
    /\ TotalPolls(history) < MaxPolls
    /\ \E out \in InnerOutcomes :
        LET step == ObservedFuturePoll(futures[i], out, now)
        IN  /\ futures' = [futures EXCEPT ![i] = step.fut]
            /\ stdout' = stdout \o Tagged(i, step.printed)
            /\ history' = [history EXCEPT ![i] = Append(@, out)]
            /\ returned' = [returned EXCEPT ![i] = Append(@, step.ret)]
    /\ firstPoll' = [firstPoll EXCEPT ![i] = IF IsNone(@) THEN Some(now) ELSE @]
    /\ UNCHANGED << layer, service, inner, built, now, readyProbe >>

\* Mutant of Drop: the request metadata is shared by the futures of a
\* service, so a record shows the request of the latest call.
MutDropUsesLatestRequest(i) ==
    /\ i \in 1..Len(futures)
    /\ futures[i].alive
    /\ stdout' = stdout \o Tagged(i, ObservedFutureDrop(
           [futures[i] EXCEPT !.request_metadata =
               RequestMetadataFrom(inner.calls[Len(inner.calls)])], now))
    /\ futures' = [futures EXCEPT ![i] = Released]
    /\ firstPoll' = [firstPoll EXCEPT ![i] = None]
    /\ UNCHANGED << layer, service, inner, built, now, history, returned,
                    readyProbe >>

\* The owner of future i drops it (after resolution, or abandoning it): drop
\* prints, then the fields are released.
Drop(i) ==
    /\ i \in 1..Len(futures)
    /\ futures[i].alive
    /\ stdout' = stdout \o Tagged(i, ObservedFutureDrop(futures[i], now))
    /\ futures' = [futures EXCEPT ![i] = Released]
    /\ firstPoll' = [firstPoll EXCEPT ![i] = None]
    /\ UNCHANGED << layer, service, inner, built, now, history, returned,
                    readyProbe >>

Next ==
    \/ Tick
    \/ PollReady
    \/ Call
    \/ \E i \in 1..Len(futures) : Poll(i)
    \/ \E i \in 1..Len(futures) : Drop(i)

Spec == Init /\ [][Next]_vars

\* The steps of the program with the clock standing still: no guard reads
\* the clock, so which steps can follow which does not depend on it.
LiveNext ==
    \/ PollReady
    \/ Call
    \/ \E i \in 1..Len(futures) : Poll(i)
    \/ \E i \in 1..Len(futures) : Drop(i)

\* The owner of a future drops it in the end: every value is dropped when its
\* owner lets go of it.
LiveSpec ==
    Init /\ [][LiveNext]_vars /\ \A i \in 1..MaxOps : WF_vars(Drop(i))

\* ---------------------------------------------------- observation helpers
\* The records future i printed.
Records(i) == SelectSeq(stdout, LAMBDA r : r.op = i)

Ops == 1..Len(futures)
Polled(i) == Len(history[i]) >= 1
Dropped(i) == ~futures[i].alive
LastOutcome(i) == history[i][Len(history[i])]
ResolvedOk(i) == Polled(i) /\ IsReady(LastOutcome(i)) /\ LastOutcome(i).result.ok
ResolvedErr(i) == Polled(i) /\ IsReady(LastOutcome(i)) /\ ~LastOutcome(i).result.ok
OnlyPending(i) == \A k \in 1..Len(history[i]) : history[i][k] = Pending

\* ------------------------------------------------------------------ claims

\* C1: a future that was polled, whose inner future resolved with Ok and that
\* was dropped has printed exactly one record, and that record carries a
\* response code, whatever the flag and however many Pending polls came first.
C1_OkEmitsOneRecordWithCode ==
    \A i \in Ops :
        (Dropped(i) /\ ResolvedOk(i)) =>
            /\ Len(Records(i)) = 1
            /\ Len(Records(i)[1].line) = 3

C1_Witness ==
    \E i \in Ops :
        /\ Dropped(i) /\ ResolvedOk(i)
        /\ Len(history[i]) = 2 /\ history[i][1] = Pending
        /\ ~built[i].time_failures
        /\ Len(Records(i)) = 1

\* C2: with the flag false, a future dropped without ResponseMetadata (its
\* inner future failed, or it was abandoned) has printed no record.
C2_FlagFalseIncompleteEmitsNothing ==
    \A i \in Ops :
        (Dropped(i) /\ ~built[i].time_failures /\ ~ResolvedOk(i)) =>
            Len(Records(i)) = 0

\* C3: with the flag true, a future that was polled, whose inner future
\* resolved with Err and that was dropped has printed exactly one record, and
\* that record carries no response code.
C3_FlagTrueErrEmitsOneRecordNoCode ==
    \A i \in Ops :
        (Dropped(i) /\ ResolvedErr(i) /\ built[i].time_failures) =>
            /\ Len(Records(i)) = 1
            /\ Len(Records(i)[1].line) = 2

C3_Witness ==
    \E i \in Ops :
        /\ Dropped(i) /\ ResolvedErr(i) /\ built[i].time_failures
        /\ Len(history[i]) = 1
        /\ inner.calls[i].method = "POST"
        /\ Len(Records(i)) = 1

\* C4: with the flag true, a future that was polled, only ever saw Pending
\* and was then dropped has printed exactly one record: the method and the
\* path of its request, and no response code.
C4_FlagTrueAbandonedEmitsOneRecord ==
    \A i \in Ops :
        (Dropped(i) /\ Polled(i) /\ OnlyPending(i) /\ built[i].time_failures) =>
            /\ Len(Records(i)) = 1
            /\ Records(i)[1].line =
                   << inner.calls[i].method, inner.calls[i].uri.path >>

C4_Witness ==
    \E i \in Ops :
        /\ Dropped(i) /\ OnlyPending(i) /\ built[i].time_failures
        /\ Len(history[i]) = 2
        /\ Len(Records(i)) = 1

\* C5: a future that was built by call and dropped without a single poll has
\* printed no record, whatever the flag.
C5_NeverPolledEmitsNothing ==
    \A i \in Ops :
        (Dropped(i) /\ ~Polled(i)) => Len(Records(i)) = 0

C5_Witness ==
    \E i \in Ops, j \in Ops :
        /\ Dropped(i) /\ ~Polled(i)
        /\ Dropped(j) /\ Polled(j) /\ Len(Records(j)) = 1
        /\ Len(Records(i)) = 0

\* C6: a future never prints more than one record: none while it can still
\* be polled (no poll prints), and at most one once it is dropped.
C6_AtMostOneRecord ==
    \A i \in Ops :
        /\ Len(Records(i)) <= 1
        /\ futures[i].alive => Len(Records(i)) = 0

C6_Witness ==
    \E i \in Ops, j \in Ops :
        /\ Dropped(i) /\ ResolvedOk(i) /\ Len(Records(i)) = 1
        /\ futures[j].alive /\ ResolvedErr(j) /\ Len(Records(j)) = 0

\* C7: what ObservedFuture::poll returns is, poll by poll, what the inner
\* future reported: Pending for Pending, and the same Ok or Err for Ready.
C7_PollTransparent ==
    \A i \in Ops : returned[i] = history[i]

C7_Witness ==
    \E i \in Ops, j \in Ops :
        /\ ResolvedErr(i) /\ returned[i][Len(returned[i])] = Ready(Err([error |-> "timeout"]))
        /\ ResolvedOk(j) /\ returned[j][1].result.val.status = 404

\* C8: every record carries the method and the path of the request that was
\* passed to call for the future that printed it, followed by the status of
\* that future's own response when one was observed and by nothing otherwise;
\* the metadata captured at call stays that of the request.
C8_RecordContent ==
    /\ \A k \in 1..Len(stdout) :
        LET i == stdout[k].op
            req == inner.calls[i]
        IN  stdout[k].line =
                IF ResolvedOk(i)
                THEN << req.method, req.uri.path, LastOutcome(i).result.val.status >>
                ELSE << req.method, req.uri.path >>
    /\ \A i \in Ops :
        futures[i].alive =>
            futures[i].request_metadata =
                [method |-> inner.calls[i].method, path |-> inner.calls[i].uri.path]

C8_Witness ==
    \E k \in 1..Len(stdout), m \in 1..Len(stdout) :
        /\ stdout[k].line = << "GET", "/", 200 >>
        /\ stdout[m].line = << "POST", "/x" >>

\* C9: poll_ready returns what the wrapped service's poll_ready returned and
\* leaves the MetricService, the futures and the printed records as they were.
C9_PollReadyForwarded ==
    [][(readyProbe' # readyProbe /\ IsSome(readyProbe')) =>
          /\ Unwrap(readyProbe').ret = Unwrap(readyProbe').inner
          /\ service' = service
          /\ futures' = futures
          /\ stdout' = stdout]_vars

C9_Witness ==
    /\ IsSome(readyProbe)
    /\ Unwrap(readyProbe).ret = Ready(Err([error |-> "timeout"]))
    /\ Len(futures) = 1

\* C10: the drop of a future prints a record if and only if the timer of the
\* future is present when it is dropped, and the timer of a future is present
\* if and only if the future was polled at least once.
C10_EmitIffTimerPresent ==
    [][\A i \in Ops :
          /\ futures[i].alive => (IsSome(futures[i].started_at) <=> Polled(i))
          /\ (futures[i].alive /\ ~futures'[i].alive) =>
                /\ Len(stdout') \in {Len(stdout), Len(stdout) + 1}
                /\ (Len(stdout') = Len(stdout) + 1
                       <=> IsSome(futures[i].started_at))]_vars

C10_Witness ==
    \E i \in Ops, j \in Ops :
        /\ Dropped(i) /\ Polled(i) /\ Len(Records(i)) = 1
        /\ ResolvedErr(i) /\ ~built[i].time_failures
        /\ Dropped(j) /\ ~Polled(j) /\ Len(Records(j)) = 0

\* C11: the start instant of a future is absent until its first poll, is set
\* to the clock by that poll, and is left as it is by every later poll.
C11_TimerSetOnce ==
    [][\A i \in Ops :
          (futures[i].alive /\ futures'[i].alive) =>
              /\ ~Polled(i) => IsNone(futures[i].started_at)
              /\ (~Polled(i) /\ Len(history'[i]) = 1) =>
                     futures'[i].started_at = Some(now)
              /\ Polled(i) =>
                     /\ IsSome(futures[i].started_at)
                     /\ futures'[i].started_at = futures[i].started_at]_vars

C11_Witness ==
    \E i \in Ops :
        /\ futures[i].alive
        /\ Len(history[i]) = 2
        /\ futures[i].started_at = Some(0)
        /\ now = 1

\* C12: a future holds ResponseMetadata if and only if one of its polls saw
\* the inner future resolve with Ok, and then it is the code of that response;
\* it is absent after construction, after Pending and after Ready(Err).
C12_ResponseMetadataIffOk ==
    \A i \in Ops :
        futures[i].alive =>
            /\ IsSome(futures[i].response_metadata) <=> ResolvedOk(i)
            /\ ResolvedOk(i) =>
                   Unwrap(futures[i].response_metadata).code =
                       LastOutcome(i).result.val.status

C12_Witness ==
    \E i \in Ops, j \in Ops :
        /\ futures[i].alive /\ ResolvedOk(i)
        /\ futures[i].response_metadata = Some([code |-> 404])
        /\ futures[j].alive /\ ResolvedErr(j)
        /\ IsNone(futures[j].response_metadata)

\* C13: a call prints nothing, leaves the service and the other futures as
\* they were, hands the request to the wrapped service exactly once, and
\* returns a future with no timer, no ResponseMetadata, the flag of the
\* MetricLayer and the method and path of that request.
C13_CallFrame ==
    [][Len(futures') = Len(futures) + 1 =>
          LET n == Len(futures')
              f == futures'[n]
              req == inner'.calls[n]
          IN  /\ stdout' = stdout
              /\ service' = service
              /\ \A i \in Ops : futures'[i] = futures[i]
              /\ inner'.calls = Append(inner.calls, req)
              /\ req \in Requests
              /\ f.alive
              /\ IsNone(f.started_at)
              /\ IsNone(f.response_metadata)
              /\ f.time_failures = layer.time_failures
              /\ f.request_metadata =
                     [method |-> req.method, path |-> req.uri.path]]_vars

C13_Witness ==
    /\ Len(futures) = 2
    /\ ~layer.time_failures
    /\ futures[2].alive /\ ~Polled(2)
    /\ futures[2].request_metadata = [method |-> "POST", path |-> "/x"]
    /\ Dropped(1) /\ Len(stdout) = 1

\* C14: a record of a future is printed only by the step that ends the
\* future's life: before that step the future and its fields are still there,
\* after it the future is released and is never polled again, and no record
\* of a future exists while the future can still be polled.
C14_EmittedAtDisposal ==
    [][/\ stdout' # stdout =>
            /\ Len(stdout') = Len(stdout) + 1
            /\ SubSeq(stdout', 1, Len(stdout)) = stdout
            /\ LET i == stdout'[Len(stdout')].op
               IN  /\ i \in Ops
                   /\ futures[i].alive
                   /\ futures[i].response_future \in {"Pending", "Done"}
                   /\ futures'[i] = Released
                   /\ history'[i] = history[i]
                   /\ Len(Records(i)) = 0
       /\ \A i \in Ops :
            ~futures[i].alive =>
                /\ futures'[i] = Released
                /\ history'[i] = history[i]]_vars

C14_Witness ==
    \E i \in Ops, j \in Ops :
        /\ Dropped(i) /\ ResolvedOk(i) /\ Len(Records(i)) = 1
        /\ Dropped(j) /\ Polled(j) /\ OnlyPending(j) /\ Len(Records(j)) = 1

\* C15: a poll on which the inner future reports Pending returns Pending,
\* prints nothing, polls the inner future once, and changes nothing of the
\* future but the timer, which it starts if it was absent.
C15_PendingPollFrame ==
    [][\A i \in Ops :
          (Len(history'[i]) > Len(history[i])
              /\ history'[i][Len(history'[i])] = Pending) =>
              /\ history'[i] = Append(history[i], Pending)
              /\ returned'[i] = Append(returned[i], Pending)
              /\ stdout' = stdout
              /\ futures'[i] =
                     [futures[i] EXCEPT
                         !.started_at = IF IsNone(@) THEN Some(now) ELSE @]]_vars

C15_Witness ==
    \E i \in Ops :
        /\ futures[i].alive
        /\ history[i] = << Pending, Pending >>
        /\ returned[i] = << Pending, Pending >>
        /\ futures[i].started_at = Some(0) /\ now = 1
        /\ stdout = << >>

\* C16: the duration of a record is the clock at the drop that printed it
\* minus the clock at the first poll of that future; it is never negative and
\* does not count the time between call and first poll.
C16_DurationSinceFirstPoll ==
    [][Len(stdout') = Len(stdout) + 1 =>
          LET r == stdout'[Len(stdout')]
          IN  /\ IsSome(firstPoll[r.op])
              /\ r.duration = now - Unwrap(firstPoll[r.op])
              /\ r.duration >= 0]_vars

C16_Witness ==
    \E k \in 1..Len(stdout), m \in 1..Len(stdout) :
        /\ now = 1
        /\ stdout[k].duration = 1
        /\ stdout[m].duration = 0

\* C17: whatever the interleaving, a step of one future leaves every other
\* future, its polls and its records as they were; every record carries the
\* method and path of its own future's request, and a dropped future that was
\* polled has exactly one record of its own.
C17_OwnState ==
    /\ \A k \in 1..Len(stdout) :
        LET req == inner.calls[stdout[k].op]
        IN  SubSeq(stdout[k].line, 1, 2) = << req.method, req.uri.path >>
    /\ \A i \in Ops :
        (Dropped(i) /\ Polled(i)) => Len(Records(i)) = 1

C17_Independent ==
    [][/\ C17_OwnState'
       /\ \A i \in Ops, j \in Ops :
            (i # j /\ (futures'[i] # futures[i] \/ history'[i] # history[i])) =>
                /\ futures'[j] = futures[j]
                /\ history'[j] = history[j]
                /\ returned'[j] = returned[j]
                /\ firstPoll'[j] = firstPoll[j]
                /\ SelectSeq(stdout', LAMBDA r : r.op = j) = Records(j)]_vars

C17_Witness ==
    /\ Len(futures) = 2
    /\ Len(stdout) = 2
    /\ stdout[1].op = 2 /\ stdout[2].op = 1
    /\ inner.calls[1].method # inner.calls[2].method
    /\ ResolvedOk(1) /\ ResolvedErr(2)

\* C18: the poll on which the inner future resolves is the poll on which the
\* ObservedFuture returns Ready; every future is dropped in the end, and a
\* dropped future stays dropped and prints nothing more.
C18_NoAddedSuspension ==
    /\ [](\A i \in Ops :
            /\ Len(returned[i]) = Len(history[i])
            /\ \A k \in 1..Len(history[i]) :
                 IsReady(history[i][k]) <=> IsReady(returned[i][k]))
    /\ \A i \in 1..MaxOps :
         (Len(futures) >= i) ~> (Len(futures) >= i /\ ~futures[i].alive)
    /\ [][\A i \in Ops :
            ~futures[i].alive =>
                /\ ~futures'[i].alive
                /\ SelectSeq(stdout', LAMBDA r : r.op = i) = Records(i)]_vars

C18_Witness ==
    \E i \in Ops :
        /\ Dropped(i)
        /\ history[i] = << Pending, Ready(Ok([status |-> 200, body |-> "Hello, World!"])) >>
        /\ IsReady(returned[i][2])
        /\ Len(Records(i)) = 1

\* C19: a future that holds ResponseMetadata holds a start instant too.
C19_ResponseImpliesTimer ==
    \A i \in Ops :
        futures[i].alive =>
            (IsSome(futures[i].response_metadata) => IsSome(futures[i].started_at))

C19_Witness ==
    \E i \in Ops :
        /\ futures[i].alive
        /\ Len(history[i]) = 1
        /\ IsSome(futures[i].response_metadata)
        /\ futures[i].started_at = Some(1)

====
